---- MODULE Spec2Model ----
(***************************************************************************)
(* Model of the ESPN tennis scrapers: get_tournaments.py (the tournament   *)
(* pipeline) and main.py (the tab-links pipeline and the pairing           *)
(* formatter).                                                             *)
(*                                                                         *)
(* A Python string is a sequence of chunks.  A chunk is either the slash   *)
(* "/" or a piece of text holding no slash ("tournament", "713-2025",      *)
(* "2").  Substring tests, the regular expression and the concatenations  *)
(* of the source are computed on these sequences.  An optional string      *)
(* (None or a str) is a record [none, s].                                  *)
(*                                                                         *)
(* A dict keyed "tournament_<n>" or "match_<n>" is a function whose        *)
(* domain is the set of the numbers n.                                     *)
(***************************************************************************)
EXTENDS Integers, Sequences, FiniteSets, TLC

VARIABLES
    prog,              \* what runs: the script "tournaments" or "tabs", or one
                       \* function alone, the "extractor" or the "formatter"
    pc,                \* position in the script
    today,             \* datetime.now() as the chunks of YYYYMMDD; a run does
                       \* not last past midnight
    url,               \* argument of get_all_espn_tennis_tabs_links
    tree,              \* the parsed document
    exc,               \* the exception raised inside the try block
    queries,           \* the locator queries evaluated so far, in order
    tournament_links,  \* get_current_tournaments: the candidate anchors
    i,                 \* get_current_tournaments: enumerate index
    tournaments,       \* get_current_tournaments: the dict being built
    returned,          \* what get_current_tournaments returned
    result,            \* what the pipeline function returned
    pairs_calls,       \* number of calls of create_player_pairs
    files,             \* the files written, name -> content
    link,              \* record extractor alone: the candidate anchor
    record,            \* record extractor alone: its outcome
    player_names,      \* pairing formatter alone: its input
    matches            \* pairing formatter alone: its output

vars == <<prog, pc, today, url, tree, exc, queries, tournament_links, i,
          tournaments, returned, result, pairs_calls, files, link, record,
          player_names, matches>>

----------------------------------------------------------------------------
(* Bounds of the model *)

MaxAnchors == 2   \* anchors in the schedule document
MaxHrefLen == 6   \* chunks in an href given to the record extractor alone
MaxNames == 4     \* names given to the pairing formatter alone
MaxDivs == 2      \* child divs of the scoreboard container

----------------------------------------------------------------------------
(* Python values *)

None == [none |-> TRUE, s |-> <<>>]
Str(s) == [none |-> FALSE, s |-> s]

\* bool(v) of an optional string: None and "" are falsy
Truthy(v) == ~v.none /\ v.s # <<>>

\* sub in s
Contains(s, sub) ==
    \E k \in 1..(Len(s) - Len(sub) + 1) : SubSeq(s, k, k + Len(sub) - 1) = sub

\* s.endswith("/")
EndsWithSlash(s) == Len(s) > 0 /\ s[Len(s)] = "/"

\* s.strip(): the chunk " " is whitespace
RECURSIVE LStrip(_)
LStrip(s) == IF s # <<>> /\ Head(s) = " " THEN LStrip(Tail(s)) ELSE s

RECURSIVE RStrip(_)
RStrip(s) ==
    IF s # <<>> /\ s[Len(s)] = " " THEN RStrip(SubSeq(s, 1, Len(s) - 1)) ELSE s

Strip(s) == LStrip(RStrip(s))

\* all sequences over S of length at most n
SeqsUpTo(S, n) == UNION {[1..k -> S] : k \in 0..n}

EmptyDict == [k \in {} |-> 0]

\* d[k] = v
Put(d, k, v) == [x \in DOMAIN d \cup {k} |-> IF x = k THEN v ELSE d[x]]

----------------------------------------------------------------------------
(* get_current_tournaments: the body of the loop over the candidates *)

PlayerMarker == <<"/", "player", "/">>
TournamentMarker == <<"/", "tournament", "/">>
EventIdMarker == <<"/", "eventId", "/">>
DateMarker == <<"/", "date", "/">>

\* the positions where re.search(r'eventId/([^/]+)', s) can match
EventIdMatches(s) ==
    {k \in 1..(Len(s) - 2) : s[k] = "eventId" /\ s[k + 1] = "/" /\ s[k + 2] # "/"}

Min(S) == CHOOSE m \in S : \A n \in S : m <= n

\* [^/]+ from position k: the longest run of chunks other than "/"
RECURSIVE RunFrom(_, _)
RunFrom(s, k) ==
    IF k > Len(s) \/ s[k] = "/" THEN <<>> ELSE <<s[k]>> \o RunFrom(s, k + 1)

\* line 69: the candidate is a player link
IsPlayerLink_PlayerOnly(href) ==
    /\ Truthy(href)
    /\ Contains(href.s, PlayerMarker)
    /\ ~Contains(href.s, TournamentMarker)
    /\ ~Contains(href.s, EventIdMarker)

IsPlayerLink(href) == Truthy(href) /\ Contains(href.s, PlayerMarker)

\* line 73: the candidate is neither a tournament link nor an eventId link
IsOtherLink(href) ==
    /\ Truthy(href)
    /\ ~(Contains(href.s, TournamentMarker) \/ Contains(href.s, EventIdMarker))

\* lines 78-86: the text of the date cell of the enclosing row
DateInfo(a) == IF a.row.none THEN <<"Unknown Date">> ELSE Strip(a.row.s)

\* lines 89-94
TournamentId(href) ==
    IF Truthy(href) /\ EventIdMatches(href.s) # {}
    THEN Str(RunFrom(href.s, Min(EventIdMatches(href.s)) + 2))
    ELSE None

ScoreboardPrefix ==
    <<"https:", "/", "/", "www.espn.com", "/", "tennis", "/", "scoreboard", "/",
      "tournament", "/", "_", "/", "eventId", "/">>

\* line 102
CanonicalUrl(id, day) ==
    ScoreboardPrefix \o id \o <<"/", "competitionType", "/", "1", "/", "date", "/">> \o day

\* lines 100-115
ScoreboardUrl_DateFromHref(href, tournament_id, day) ==
    IF Truthy(tournament_id)
    THEN IF Contains(href.s, DateMarker)
         THEN Str(href.s)
         ELSE Str(CanonicalUrl(tournament_id.s, day))
    ELSE IF Truthy(href) /\ Contains(href.s, TournamentMarker)
         THEN IF ~Contains(href.s, DateMarker)
              THEN IF EndsWithSlash(href.s)
                   THEN Str(href.s \o <<"date", "/">> \o day)
                   ELSE Str(href.s \o <<"/", "date", "/">> \o day)
              ELSE Str(href.s)
         ELSE None

ScoreboardUrl_AlwaysSlash(href, tournament_id, day) ==
    IF Truthy(tournament_id)
    THEN Str(CanonicalUrl(tournament_id.s, day))
    ELSE IF Truthy(href) /\ Contains(href.s, TournamentMarker)
         THEN IF ~Contains(href.s, DateMarker)
              THEN Str(href.s \o <<"/", "date", "/">> \o day)
              ELSE Str(href.s)
         ELSE None

ScoreboardUrl(href, tournament_id, day) ==
    IF Truthy(tournament_id)
    THEN Str(CanonicalUrl(tournament_id.s, day))
    ELSE IF Truthy(href) /\ Contains(href.s, TournamentMarker)
         THEN IF ~Contains(href.s, DateMarker)
              THEN IF EndsWithSlash(href.s)
                   THEN Str(href.s \o <<"date", "/">> \o day)
                   ELSE Str(href.s \o <<"/", "date", "/">> \o day)
              ELSE Str(href.s)
         ELSE None

\* lines 117-123
TournamentRecord(a, day) ==
    [name |-> Strip(a.text),
     dates |-> DateInfo(a),
     tournament_id |-> TournamentId(a.href),
     original_url |-> a.href,
     scoreboard_url |-> ScoreboardUrl(a.href, TournamentId(a.href), day)]

\* lines 65-123: one candidate is skipped, or one record is emitted
ProcessLink(a, day) ==
    IF IsPlayerLink(a.href) \/ IsOtherLink(a.href)
    THEN [emit |-> FALSE]
    ELSE [emit |-> TRUE, rec |-> TournamentRecord(a, day)]

----------------------------------------------------------------------------
(* The record extractor alone, on every href of at most MaxHrefLen chunks *)

HrefChunks == {"/", "tournament", "eventId", "date", "player", "713-2025"}

Days == {<<"2", "0", "2", "5", "0", "3", "2", "2">>,
         <<"2", "0", "2", "6", "1", "1", "0", "5">>}

NotRun == [run |-> FALSE]

InitUrl ==
    /\ today \in Days
    /\ link \in {[text |-> <<"Miami Open">>, href |-> h, row |-> None] :
                    h \in {None} \cup {Str(s) : s \in SeqsUpTo(HrefChunks, MaxHrefLen)}}
    /\ record = NotRun
    /\ prog = "extractor"
    /\ pc = "extract"
    /\ url = None
    /\ tree = None
    /\ exc = "none"
    /\ queries = <<>>
    /\ tournament_links = <<>>
    /\ i = 0
    /\ tournaments = EmptyDict
    /\ returned = EmptyDict
    /\ result = NotRun
    /\ pairs_calls = 0
    /\ files = EmptyDict
    /\ player_names = <<>>
    /\ matches = NotRun

ExtractOne ==
    /\ prog = "extractor"
    /\ pc = "extract"
    /\ record' = ProcessLink(link, today)
    /\ pc' = "done"
    /\ UNCHANGED <<prog, today, url, tree, exc, queries, tournament_links, i,
                   tournaments, returned, result, pairs_calls, files, link,
                   player_names, matches>>

NextUrl == ExtractOne

SpecUrl == InitUrl /\ [][NextUrl]_vars

\* the extractor has emitted a record for the candidate
Emitted == prog = "extractor" /\ pc = "done" /\ record.emit

\* s without its final chunk when that chunk is "/"
DropTrailingSlash(s) == IF EndsWithSlash(s) THEN SubSeq(s, 1, Len(s) - 1) ELSE s

\* C4: a record whose tournament_id was taken from an eventId/<value> segment
\* of the href has the canonical scoreboard URL built from that id and
\* today's date, whether or not the href holds a /date/ segment.
C4_CanonicalScoreboardUrl ==
    (Emitted /\ ~record.rec.tournament_id.none) =>
        /\ Contains(link.href.s, <<"eventId", "/">> \o record.rec.tournament_id.s)
        /\ ~Contains(record.rec.tournament_id.s, <<"/">>)
        /\ record.rec.tournament_id.s # <<>>
        /\ record.rec.scoreboard_url =
              Str(<<"https:", "/", "/", "www.espn.com", "/", "tennis", "/",
                    "scoreboard", "/", "tournament", "/", "_", "/", "eventId", "/">>
                  \o record.rec.tournament_id.s
                  \o <<"/", "competitionType", "/", "1", "/", "date", "/">>
                  \o today)

\* C4 witness: a record with an id whose href already holds a /date/ segment
C4_Witness ==
    /\ Emitted
    /\ ~record.rec.tournament_id.none
    /\ Contains(link.href.s, DateMarker)
    /\ record.rec.scoreboard_url # link.href

\* C10 as stated: without an id, a /tournament/ href lacking /date/ gets one
\* /date/<today> appended; else an href holding /date/ passes through; else
\* the scoreboard URL is None.
C10_AsStated ==
    (Emitted /\ record.rec.tournament_id.none) =>
        LET h == record.rec.original_url
            u == record.rec.scoreboard_url
        IN IF Truthy(h) /\ Contains(h.s, TournamentMarker) /\ ~Contains(h.s, DateMarker)
           THEN u = Str(DropTrailingSlash(h.s) \o DateMarker \o today)
           ELSE IF Truthy(h) /\ Contains(h.s, DateMarker)
                THEN u = h
                ELSE u = None

\* C10 amended: the pass-through applies only to an href that holds
\* /tournament/; an href without /tournament/ gets None even when it holds
\* /date/.
C10_ScoreboardUrlWithoutId ==
    (Emitted /\ record.rec.tournament_id.none) =>
        LET h == record.rec.original_url
            u == record.rec.scoreboard_url
        IN IF Truthy(h) /\ Contains(h.s, TournamentMarker)
           THEN IF ~Contains(h.s, DateMarker)
                THEN u = Str(DropTrailingSlash(h.s) \o DateMarker \o today)
                ELSE u = h
           ELSE u = None

\* C10 witness: a /tournament/ href ending in "/" got its date appended
C10_Witness ==
    /\ Emitted
    /\ record.rec.tournament_id.none
    /\ Contains(link.href.s, TournamentMarker)
    /\ EndsWithSlash(link.href.s)
    /\ Len(record.rec.scoreboard_url.s) = Len(link.href.s) + 2 + Len(today)

----------------------------------------------------------------------------
(* main.py: create_player_pairs *)

NoOpponent == <<"N", "/", "A">>

\* lines 165-177: the record of the loop iteration at the (0-based) index k
MatchRecord_NoSentinel(names, k) ==
    IF k + 1 < Len(names)
    THEN [player1 |-> names[k + 1], player2 |-> names[k + 2]]
    ELSE [player1 |-> names[k + 1], player2 |-> names[k + 1]]

MatchRecord(names, k) ==
    IF k + 1 < Len(names)
    THEN [player1 |-> names[k + 1], player2 |-> names[k + 2]]
    ELSE [player1 |-> names[k + 1], player2 |-> NoOpponent]

\* line 165
MatchId(k) == k \div 2 + 1

\* line 164: range(0, len(player_names), 2), from k on
RECURSIVE PairLoop(_, _, _)
PairLoop_OverlappingPairs(names, k, acc) ==
    IF k >= Len(names)
    THEN acc
    ELSE PairLoop(names, k + 1, Put(acc, k + 1, MatchRecord(names, k)))

PairLoop(names, k, acc) ==
    IF k >= Len(names)
    THEN acc
    ELSE PairLoop(names, k + 2, Put(acc, MatchId(k), MatchRecord(names, k)))

\* lines 154-179.  The keys "Tournament Name" and "Tournament Day" are the
\* fields name and day; the keys match_<n> are the domain of match.
create_player_pairs(names, tournament_name, tournament_date) ==
    [name |-> tournament_name,
     day |-> tournament_date,
     warned |-> Len(names) % 2 # 0,
     match |-> PairLoop(names, 0, EmptyDict)]

----------------------------------------------------------------------------
(* The pairing formatter alone, on every list of at most MaxNames names *)

\* link texts of players; none of them is the literal text N/A
PlayerNames == {<<"Sinner">>, <<"Alcaraz">>, <<"De", " ", "Minaur">>}

InitPairs ==
    /\ player_names \in SeqsUpTo(PlayerNames, MaxNames)
    /\ matches = NotRun
    /\ prog = "formatter"
    /\ pc = "pair"
    /\ today \in Days
    /\ link = None
    /\ record = NotRun
    /\ url = None
    /\ tree = None
    /\ exc = "none"
    /\ queries = <<>>
    /\ tournament_links = <<>>
    /\ i = 0
    /\ tournaments = EmptyDict
    /\ returned = EmptyDict
    /\ result = NotRun
    /\ pairs_calls = 0
    /\ files = EmptyDict

FormatPairs ==
    /\ prog = "formatter"
    /\ pc = "pair"
    /\ matches' = create_player_pairs(player_names, <<"Miami Open">>, today)
    /\ pc' = "done"
    /\ UNCHANGED <<prog, today, url, tree, exc, queries, tournament_links, i,
                   tournaments, returned, result, pairs_calls, files, link,
                   record, player_names>>

NextPairs == FormatPairs

SpecPairs == InitPairs /\ [][NextPairs]_vars

\* the formatter has returned
Paired == prog = "formatter" /\ pc = "done"

C6_OddInputPairs ==
    (Paired /\ Len(player_names) % 2 = 1) =>
        LET k == (Len(player_names) - 1) \div 2
        IN /\ DOMAIN matches.match = 1..(k + 1)
           /\ matches.match[k + 1].player1 = player_names[2 * k + 1]
           /\ matches.match[k + 1].player2 = <<"N", "/", "A">>
           /\ \A j \in 1..k :
                /\ matches.match[j].player1 = player_names[2 * j - 1]
                /\ matches.match[j].player2 = player_names[2 * j]

\* C6 witness: three names, the third one left without an opponent
C6_Witness ==
    /\ Paired
    /\ Len(player_names) = 3
    /\ 2 \in DOMAIN matches.match
    /\ matches.match[2].player2 = NoOpponent

----------------------------------------------------------------------------
(* Exceptions raised inside the try blocks of the two pipeline functions *)

\* requests.get and raise_for_status raise subclasses of RequestException;
\* html.fromstring raises ParserError; "Exception" is any other exception
\* raised while the document is processed
RequestExceptions == {"ConnectionError", "HTTPError"}
FetchFailures == RequestExceptions \cup {"ParserError"}

\* which except clause handles exc (get_tournaments.py 127-132, main.py 134-139)
CaughtBy_RequestOnly(e) ==
    IF e \in RequestExceptions THEN "RequestException" ELSE "uncaught"

CaughtBy(e) ==
    IF e \in RequestExceptions THEN "RequestException" ELSE "Exception"

NoTree == [parsed |-> FALSE]

----------------------------------------------------------------------------
(* get_tournaments.py: the schedule document and the locator chain *)

TennisMarker == <<"/", "tennis", "/">>

\* anchors of a schedule page: text, href and the date cell of the row
AnchorSamples ==
    { [text |-> <<" ", "Miami Open", " ">>,
       href |-> Str(<<"/", "tennis", "/", "scoreboard", "/", "tournament", "/", "_",
                      "/", "eventId", "/", "713-2025">>),
       row |-> Str(<<" ", "Mar 18-30">>)],
      [text |-> <<"Jannik Sinner">>,
       href |-> Str(<<"/", "tennis", "/", "player", "/", "_", "/", "eventId", "/",
                      "713-2025">>),
       row |-> None],
      [text |-> <<"Madrid Open">>,
       href |-> Str(<<"/", "tennis", "/", "tournament", "/", "madrid", "/">>),
       row |-> Str(<<"Apr 21">>)],
      [text |-> <<"Rankings">>,
       href |-> Str(<<"/", "tennis", "/", "rankings">>),
       row |-> None],
      [text |-> <<"Schedule">>, href |-> None, row |-> None],
      [text |-> <<"Rome">>,
       href |-> Str(<<"/", "tournament", "/", "rome", "/", "date", "/", "2024">>),
       row |-> None] }

\* where an anchor sits: in a tbody under the Current section, on the fixed
\* structural path, under a div of class Table__TBODY
Places == {{"section"}, {"path"}, {"tbody"}, {"path", "tbody"}, {"section", "tbody"}}

PlacedAnchors ==
    {[text |-> a.text, href |-> a.href, row |-> a.row, place |-> p] :
        a \in AnchorSamples, p \in Places}

\* section: some Table__Title div holds the text "Current"
ScheduleDocs ==
    {[parsed |-> TRUE, section |-> s, anchors |-> as] :
        s \in BOOLEAN, as \in SeqsUpTo(PlacedAnchors, MaxAnchors)}

\* contains(@href, "/tennis/")
HrefHasTennis(a) == ~a.href.none /\ Contains(a.href.s, TennisMarker)

InSection(a) == "section" \in a.place /\ HrefHasTennis(a)
OnPath(a) == "path" \in a.place
InTBody(a) == "tbody" \in a.place /\ HrefHasTennis(a)

\* line 57
SectionLinks(doc) == SelectSeq(doc.anchors, InSection)
\* line 50
PathLinks(doc) == SelectSeq(doc.anchors, OnPath)
\* line 54
TBodyLinks(doc) == SelectSeq(doc.anchors, InTBody)

\* lines 36-57: the candidates and the queries evaluated to find them
LocateLinks(doc) ==
    IF ~doc.section
    THEN IF PathLinks(doc) = <<>>
         THEN [links |-> TBodyLinks(doc), queries |-> <<"titles", "path", "tbody">>]
         ELSE [links |-> PathLinks(doc), queries |-> <<"titles", "path">>]
    ELSE [links |-> SectionLinks(doc), queries |-> <<"titles", "section">>]

\* line 152: strftime("%Y-%m-%d")
FetchDate(day) ==
    SubSeq(day, 1, 4) \o <<"-">> \o SubSeq(day, 5, 6) \o <<"-">> \o SubSeq(day, 7, 8)

IsTournaments == prog = "tournaments"

\* lines 27-32
FetchSchedule ==
    /\ IsTournaments
    /\ pc = "fetch"
    /\ \/ /\ \E doc \in ScheduleDocs : tree' = doc
          /\ pc' = "locate"
          /\ exc' = exc
       \/ /\ \E e \in FetchFailures : exc' = e
          /\ pc' = "raised"
          /\ tree' = tree
    /\ UNCHANGED <<prog, today, url, queries, tournament_links, i, tournaments,
                   returned, result, pairs_calls, files, link, record,
                   player_names, matches>>

\* lines 36-63
Locate ==
    /\ IsTournaments
    /\ pc = "locate"
    /\ tournament_links' = LocateLinks(tree).links
    /\ queries' = LocateLinks(tree).queries
    /\ IF LocateLinks(tree).links = <<>>
       THEN returned' = EmptyDict /\ pc' = "returned"
       ELSE returned' = returned /\ pc' = "extract"
    /\ i' = 1
    /\ tournaments' = EmptyDict
    /\ UNCHANGED <<prog, today, url, tree, exc, result, pairs_calls, files,
                   link, record, player_names, matches>>

\* the key under which the candidate number n is stored (line 117)
RecordKey(n) == n

\* lines 64-123: one iteration, or an exception raised in it
ExtractStep ==
    /\ IsTournaments
    /\ pc = "extract"
    /\ i <= Len(tournament_links)
    /\ \/ /\ tournaments' =
               IF ProcessLink(tournament_links[i], today).emit
               THEN Put(tournaments, RecordKey(i),
                        ProcessLink(tournament_links[i], today).rec)
               ELSE tournaments
          /\ i' = i + 1
          /\ UNCHANGED <<pc, exc>>
       \/ /\ exc' = "Exception"
          /\ pc' = "raised"
          /\ UNCHANGED <<i, tournaments>>
    /\ UNCHANGED <<prog, today, url, tree, queries, tournament_links, returned,
                   result, pairs_calls, files, link, record, player_names, matches>>

\* line 125
ReturnTournaments ==
    /\ IsTournaments
    /\ pc = "extract"
    /\ i > Len(tournament_links)
    /\ returned' = tournaments
    /\ pc' = "returned"
    /\ UNCHANGED <<prog, today, url, tree, exc, queries, tournament_links, i,
                   tournaments, result, pairs_calls, files, link, record,
                   player_names, matches>>

\* lines 127-132
ExceptTournaments ==
    /\ IsTournaments
    /\ pc = "raised"
    /\ IF CaughtBy(exc) = "uncaught"
       THEN pc' = "crashed" /\ returned' = returned
       ELSE pc' = "returned" /\ returned' = EmptyDict
    /\ UNCHANGED <<prog, today, url, tree, exc, queries, tournament_links, i,
                   tournaments, result, pairs_calls, files, link, record,
                   player_names, matches>>

\* lines 141-155
create_tournament_dict(found, day) ==
    IF found = EmptyDict
    THEN [error |-> <<"No tournaments found">>]
    ELSE [tournament_count |-> Cardinality(DOMAIN found),
          fetch_date |-> FetchDate(day),
          tournaments |-> found]

CreateTournamentDict ==
    /\ IsTournaments
    /\ pc = "returned"
    /\ result' = create_tournament_dict(returned, today)
    /\ pc' = "write"
    /\ UNCHANGED <<prog, today, url, tree, exc, queries, tournament_links, i,
                   tournaments, returned, pairs_calls, files, link, record,
                   player_names, matches>>

\* lines 159-165.  The call of line 168 that follows prints a second
\* result of get_current_tournaments and writes nothing.
WriteTournaments ==
    /\ IsTournaments
    /\ pc = "write"
    /\ files' = Put(files, "tennis_tournaments.json", result)
    /\ pc' = "done"
    /\ UNCHANGED <<prog, today, url, tree, exc, queries, tournament_links, i,
                   tournaments, returned, result, pairs_calls, link, record,
                   player_names, matches>>

----------------------------------------------------------------------------
(* main.py: the scoreboard document and get_all_espn_tennis_tabs_links *)

MaxTextLen == 100

LongChunk == "x100"   \* a run of MaxTextLen characters

\* len(text)
RECURSIVE TextLen(_)
TextLen(s) ==
    IF s = <<>> THEN 0
    ELSE (IF Head(s) = LongChunk THEN MaxTextLen ELSE 1) + TextLen(Tail(s))

Digits == {"0", "1", "2", "3", "4", "5", "6", "7", "8", "9"}

\* the positions where re.search(r'date/(\d{8})', s) can match
UrlDateMatches(s) ==
    {k \in 1..(Len(s) - 9) :
        /\ s[k] = "date"
        /\ s[k + 1] = "/"
        /\ \A j \in 2..9 : s[k + j] \in Digits}

\* lines 47-56
DateStr(u) ==
    IF UrlDateMatches(u) = {}
    THEN <<"Unknown Date">>
    ELSE LET date_raw == SubSeq(u, Min(UrlDateMatches(u)) + 2, Min(UrlDateMatches(u)) + 9)
         IN SubSeq(date_raw, 1, 4) \o <<"-">> \o SubSeq(date_raw, 5, 6) \o <<"-">>
            \o SubSeq(date_raw, 7, 8)

\* lines 36-44: h1 is the heading on the fixed path, header the element of
\* class ScoreboardHeader__Name
TournamentName(doc) ==
    IF ~doc.h1.none THEN Strip(doc.h1.s)
    ELSE IF ~doc.header.none THEN Strip(doc.header.s)
    ELSE <<"Unknown Tournament">>

\* line 62
ContainerMissing_Never(doc) == FALSE
ContainerMissing(doc) == ~doc.container

\* lines 77-81: the anchors of one child div
LinkElements(div) == IF div.nested # <<>> THEN div.nested ELSE div.shallow

\* lines 83-100: the links of the child div number d
DivLinks(div, d) ==
    [li \in 1..Len(LinkElements(div)) |->
        [section |-> d,
         index |-> li,
         text |-> Strip(LinkElements(div)[li].text),
         href |-> LinkElements(div)[li].href,
         xpath |-> [div |-> d, li |-> li,
                    path |-> IF li <= Len(div.nested) THEN "div/ul/li/a" ELSE "ul/li/a"]]]

\* lines 75-100: the links of the child divs from number d on
RECURSIVE TabLinks(_, _)
TabLinks(divs, d) ==
    IF d > Len(divs) THEN <<>> ELSE DivLinks(divs[d], d) \o TabLinks(divs, d + 1)

\* line 111
IsTabText(text) == text # <<>> /\ TextLen(text) < MaxTextLen

\* lines 106-120: every anchor of the container, from number n on
RECURSIVE GeneralLinks(_, _)
GeneralLinks(all_as, n) ==
    IF n > Len(all_as) THEN <<>>
    ELSE (IF IsTabText(Strip(all_as[n].text))
          THEN <<[index |-> n, text |-> Strip(all_as[n].text),
                  href |-> all_as[n].href, xpath |-> [getpath |-> n]]>>
          ELSE <<>>)
         \o GeneralLinks(all_as, n + 1)

\* lines 68-120
AllLinks(doc) ==
    IF TabLinks(doc.divs, 1) # <<>>
    THEN TabLinks(doc.divs, 1)
    ELSE GeneralLinks(doc.all_as, 1)

\* line 123
LinkTexts(links) == [n \in 1..Len(links) |-> links[n].text]

\* lines 35-132, when no exception is raised
TabsResult(doc, u) ==
    IF ContainerMissing(doc)
    THEN [error |-> <<"Main container not found">>]
    ELSE [tournament |-> TournamentName(doc),
          tournament_date |-> DateStr(u),
          links_count |-> Len(AllLinks(doc)),
          links |-> AllLinks(doc),
          matches |-> create_player_pairs(LinkTexts(AllLinks(doc)),
                                          TournamentName(doc), DateStr(u))]

Sinner == [text |-> <<" ", "Sinner", " ">>,
           href |-> Str(<<"/", "tennis", "/", "player", "/", "1">>)]
Alcaraz == [text |-> <<"Alcaraz">>, href |-> None]
Blank == [text |-> <<" ">>, href |-> Str(<<"/", "tennis", "/">>)]
Story == [text |-> <<LongChunk>>, href |-> Str(<<"/", "tennis", "/", "story">>)]

\* child divs of the container: the anchors at ./div/ul/li/a and at ./ul/li/a
DivSamples ==
    { [nested |-> <<>>, shallow |-> <<>>],
      [nested |-> <<Sinner, Alcaraz>>, shallow |-> <<>>],
      [nested |-> <<>>, shallow |-> <<Alcaraz>>],
      [nested |-> <<Blank>>, shallow |-> <<Story, Sinner>>] }

\* a scoreboard document.  Without the container there are no child divs
\* and no anchors under it.  all_as lists the anchors of the container that
\* are not in the ul/li structure of a child div.
ScoreboardDocs ==
    {[parsed |-> TRUE, h1 |-> h, header |-> c, container |-> FALSE,
      divs |-> <<>>, all_as |-> <<>>] :
        h \in {None, Str(<<" ", "Miami Open">>)},
        c \in {None, Str(<<"Miami Open (ATP)">>)}}
    \cup
    {[parsed |-> TRUE, h1 |-> h, header |-> c, container |-> TRUE,
      divs |-> ds, all_as |-> as] :
        h \in {None, Str(<<" ", "Miami Open">>)},
        c \in {None, Str(<<"Miami Open (ATP)">>)},
        ds \in SeqsUpTo(DivSamples, MaxDivs),
        as \in {<<>>, <<Sinner, Blank, Story>>, <<Alcaraz, Sinner>>}}

\* the address of main.py line 183, and one without a date segment
Urls ==
    { CanonicalUrl(<<"713-2025">>, <<"2", "0", "2", "5", "0", "3", "2", "2">>),
      ScoreboardPrefix \o <<"713-2025">> }

IsTabs == prog = "tabs"

\* lines 28-33
FetchScoreboard ==
    /\ IsTabs
    /\ pc = "fetch"
    /\ \/ /\ \E doc \in ScoreboardDocs : tree' = doc
          /\ pc' = "process"
          /\ exc' = exc
       \/ /\ \E e \in FetchFailures : exc' = e
          /\ pc' = "raised"
          /\ tree' = tree
    /\ UNCHANGED <<prog, today, url, queries, tournament_links, i, tournaments,
                   returned, result, pairs_calls, files, link, record,
                   player_names, matches>>

\* lines 35-132: the result is returned, or an exception is raised on the way
ProcessScoreboard ==
    /\ IsTabs
    /\ pc = "process"
    /\ \/ /\ result' = TabsResult(tree, url.s)
          /\ pairs_calls' = IF "matches" \in DOMAIN TabsResult(tree, url.s)
                            THEN pairs_calls + 1
                            ELSE pairs_calls
          /\ pc' = "returned"
          /\ exc' = exc
       \/ /\ exc' = "Exception"
          /\ pc' = "raised"
          /\ UNCHANGED <<result, pairs_calls>>
    /\ UNCHANGED <<prog, today, url, tree, queries, tournament_links, i,
                   tournaments, returned, files, link, record, player_names,
                   matches>>

\* lines 134-139
ExceptTabs ==
    /\ IsTabs
    /\ pc = "raised"
    /\ IF CaughtBy(exc) = "uncaught"
       THEN pc' = "crashed" /\ result' = result
       ELSE /\ pc' = "returned"
            /\ result' = [error |-> IF CaughtBy(exc) = "RequestException"
                                    THEN <<"Request error: ", exc>>
                                    ELSE <<"Processing error: ", exc>>]
    /\ UNCHANGED <<prog, today, url, tree, exc, queries, tournament_links, i,
                   tournaments, returned, pairs_calls, files, link, record,
                   player_names, matches>>

\* lines 185-212
MainTabs ==
    /\ IsTabs
    /\ pc = "returned"
    /\ files' = IF "error" \in DOMAIN result
                THEN files
                ELSE Put(files, "tennis_matches.json", result.matches)
    /\ pc' = "done"
    /\ UNCHANGED <<prog, today, url, tree, exc, queries, tournament_links, i,
                   tournaments, returned, result, pairs_calls, link, record,
                   player_names, matches>>

----------------------------------------------------------------------------
(* The two scripts *)

Init ==
    /\ prog \in {"tournaments", "tabs"}
    /\ pc = "fetch"
    /\ today \in Days
    /\ url \in (IF prog = "tabs" THEN {Str(u) : u \in Urls} ELSE {None})
    /\ tree = NoTree
    /\ exc = "none"
    /\ queries = <<>>
    /\ tournament_links = <<>>
    /\ i = 0
    /\ tournaments = EmptyDict
    /\ returned = EmptyDict
    /\ result = NotRun
    /\ pairs_calls = 0
    /\ files = EmptyDict
    /\ link = None
    /\ record = NotRun
    /\ player_names = <<>>
    /\ matches = NotRun

Next ==
    \/ FetchSchedule
    \/ Locate
    \/ ExtractStep
    \/ ReturnTournaments
    \/ ExceptTournaments
    \/ CreateTournamentDict
    \/ WriteTournaments
    \/ FetchScoreboard
    \/ ProcessScoreboard
    \/ ExceptTabs
    \/ MainTabs

Spec == Init /\ [][Next]_vars

----------------------------------------------------------------------------
(* Claims about the two scripts *)

\* get_current_tournaments has returned
TournamentsReturned == IsTournaments /\ pc \in {"returned", "write", "done"}

\* C1 as stated: the records returned by get_current_tournaments are keyed
\* tournament_1 .. tournament_n, n the number of records, with no hole.
C1_AsStated ==
    TournamentsReturned => DOMAIN returned = 1..Cardinality(DOMAIN returned)

\* the result of the primary locator: the anchors under the Current section
PrimaryResult == IF tree.section THEN SectionLinks(tree) ELSE <<>>

\* C2 as stated: when the primary locator yields results no fallback query
\* is evaluated; when it yields none the candidates are the result of the
\* first non-empty fallback, path query first, class query second; the
\* candidate list is empty only when every locator yields nothing.
C2_AsStated ==
    (IsTournaments /\ queries # <<>>) =>
        /\ PrimaryResult # <<>> =>
             /\ tournament_links = PrimaryResult
             /\ \A n \in 1..Len(queries) : queries[n] \notin {"path", "tbody"}
        /\ PrimaryResult = <<>> =>
             tournament_links =
                 IF PathLinks(tree) # <<>> THEN PathLinks(tree) ELSE TBodyLinks(tree)
        /\ tournament_links = <<>> =>
             /\ PrimaryResult = <<>>
             /\ PathLinks(tree) = <<>>
             /\ TBodyLinks(tree) = <<>>

\* C3: no record is stored, returned or put in the result for a candidate
\* whose href contains /player/, and no record holds such an href.
C3_PlayerLinksExcluded ==
    IsTournaments =>
        /\ \A n \in 1..Len(tournament_links) :
             (~tournament_links[n].href.none
              /\ Contains(tournament_links[n].href.s, <<"/", "player", "/">>)) =>
                 /\ n \notin DOMAIN tournaments
                 /\ n \notin DOMAIN returned
                 /\ "tournaments" \in DOMAIN result => n \notin DOMAIN result.tournaments
        /\ \A n \in DOMAIN tournaments :
             ~Contains(tournaments[n].original_url.s, <<"/", "player", "/">>)
        /\ "tournaments" \in DOMAIN result =>
             \A n \in DOMAIN result.tournaments :
                 ~Contains(result.tournaments[n].original_url.s, <<"/", "player", "/">>)

\* C3 witness: a player link that also holds /eventId/ was a candidate, and
\* the result holds records
C3_Witness ==
    /\ IsTournaments
    /\ pc = "done"
    /\ "tournaments" \in DOMAIN result
    /\ \E n \in 1..Len(tournament_links) :
         /\ Contains(tournament_links[n].href.s, PlayerMarker)
         /\ Contains(tournament_links[n].href.s, EventIdMarker)

C8_NoContainerIsError ==
    (IsTabs /\ tree.parsed /\ ~tree.container /\ pc \in {"returned", "done"}) =>
        /\ "error" \in DOMAIN result
        /\ "matches" \notin DOMAIN result
        /\ "links" \notin DOMAIN result
        /\ pairs_calls = 0

\* C8 witness: the container is missing although the tournament name and the
\* date were found
C8_Witness ==
    /\ IsTabs
    /\ pc = "done"
    /\ tree.parsed
    /\ ~tree.container
    /\ ~tree.h1.none
    /\ UrlDateMatches(url.s) # {}
    /\ exc = "none"
    /\ result = [error |-> <<"Main container not found">>]

\* C9 as stated: when the result of the pipeline has the key error, no file
\* is written.
C9_AsStated == ("error" \in DOMAIN result) => files = EmptyDict

====
